---- MODULE Spec2Model ----
(***************************************************************************)
(* SecureCart AI dashboard (React + Redux Toolkit single-page app).        *)
(*                                                                         *)
(* The Redux store is modelled slice by slice (auth, transactions, fraud,  *)
(* security); every reducer is an operator from the slice state and the    *)
(* action payload to the next slice state.  On top of the store the module *)
(* models what App.tsx renders, the interval timers the pages own, the     *)
(* login request of Login.tsx and the browser's localStorage.              *)
(*                                                                         *)
(* Specifications:                                                         *)
(*   Spec       the application driven through its user interface          *)
(*   AuthSpec   any sequence of auth actions dispatched to the store       *)
(*   RtSpec     the real-time transaction feed of the transaction slice    *)
(*   AlertSpec  the fraud alert feed of the transaction slice              *)
(*   FraudSpec  the pattern list of the fraud slice                        *)
(*   FilterSpec the transaction list and its filters (TransactionMonitor)  *)
(*   FairSpec   Spec with the timers and the login request making progress *)
(*   LoginSpec  the login form and its request, with the request completing*)
(*                                                                         *)
(* setup.sh, the installation script of the repository, is modelled next   *)
(* to the application: its argument loop, the validation of the            *)
(* environment and the steps of main under errexit.                        *)
(*   SetupSpec  one run of setup.sh on any short command line              *)
(***************************************************************************)
EXTENDS Integers, Sequences, FiniteSets, TLC

VARIABLES
    auth,           \* state.auth
    storage,        \* localStorage['auth_token']
    tx,             \* state.transactions
    fraud,          \* state.fraud
    security,       \* state.security
    location,       \* the router's pathname
    view,           \* the page component App currently has mounted
    navbar,         \* whether Navbar is mounted
    timers,         \* the live setInterval timers: records [id, owner]
    handle,         \* per page, the timer id its effect holds (0: none)
    tmAutoRefresh,  \* TransactionMonitor's local autoRefresh state
    formErrors,     \* Login's local formErrors state
    req,            \* the axios.post of handleSubmit: "none" or "pending"
    attempt,        \* per login attempt: POSTs issued and actions dispatched
    last,           \* the last operation and its payload
    rtLog,          \* ids given to addRealTimeTransaction since the last clear
    alertLog,       \* ids given to addFraudAlert since the last clear
    fetchedLen,     \* size of the payload of the last fetchPatternsSuccess
    setup           \* one run of setup.sh: its shell variables and progress

vars == <<auth, storage, tx, fraud, security, location, view, navbar, timers,
          handle, tmAutoRefresh, formErrors, req, attempt, last, rtLog,
          alertLog, fetchedLen, setup>>

storeVars == <<auth, storage, tx, fraud, security>>
uiVars == <<location, view, navbar, timers, handle, tmAutoRefresh, formErrors,
            req, attempt>>
logVars == <<rtLog, alertLog, fetchedLen>>
appVars == <<storeVars, uiVars, logVars, last>>

\* null of a nullable string field (user, token, error, lastSaved, stats)
NULL == "null"

(***************************************************************************)
(* Helpers on sequences.                                                   *)
(***************************************************************************)
Min(a, b) == IF a < b THEN a ELSE b
Max(a, b) == IF a > b THEN a ELSE b

\* Array.prototype.slice(0, n)
SliceTo(s, n) == SubSeq(s, 1, Min(n, Len(s)))

\* Array.prototype.unshift(x)
Unshift(s, x) == <<x>> \o s

\* Array.prototype.findIndex, 1-based; 0 stands for -1
FindIndex(s, test(_)) ==
    IF \E i \in 1..Len(s) : test(s[i])
    THEN CHOOSE i \in 1..Len(s) : test(s[i]) /\ \A j \in 1..(i - 1) : ~test(s[j])
    ELSE 0

Reverse(s) == [i \in 1..Len(s) |-> s[Len(s) + 1 - i]]

Ids(s) == [i \in 1..Len(s) |-> s[i].id]

RECURSIVE SumRisk(_)
SumRisk(s) == IF s = <<>> THEN 0 ELSE Head(s).riskScore + SumRisk(Tail(s))

(***************************************************************************)
(* authSlice.ts                                                            *)
(***************************************************************************)
AuthInitial ==
    [isAuthenticated |-> FALSE, user |-> NULL, token |-> NULL,
     loading |-> FALSE, error |-> NULL]

loginStart(state) == [state EXCEPT !.loading = TRUE, !.error = NULL]

\* loginSuccess as it would be if it left a previous error message in place
loginSuccessKeepsError(state, payload) ==
    [state EXCEPT !.isAuthenticated = TRUE, !.user = payload.user,
                  !.token = payload.token, !.loading = FALSE]

loginSuccess(state, payload) ==
    [state EXCEPT !.isAuthenticated = TRUE, !.user = payload.user,
                  !.token = payload.token, !.loading = FALSE, !.error = NULL]

\* a loginFailure that leaves the loading flag as it is
loginFailureKeepsLoading(state, payload) ==
    [state EXCEPT !.isAuthenticated = FALSE, !.user = NULL, !.token = NULL,
                  !.error = payload]

\* localStorage.setItem('auth_token', action.payload.token)
loginSuccessStorage(store, payload) == payload.token

loginFailure(state, payload) ==
    [state EXCEPT !.isAuthenticated = FALSE, !.user = NULL, !.token = NULL,
                  !.loading = FALSE, !.error = payload]

logout(state) ==
    [state EXCEPT !.isAuthenticated = FALSE, !.user = NULL, !.token = NULL,
                  !.loading = FALSE, !.error = NULL]

\* localStorage.removeItem('auth_token')
logoutStorage(store) == NULL

clearError(state) == [state EXCEPT !.error = NULL]

restoreAuth(state, payload) ==
    [state EXCEPT !.isAuthenticated = TRUE, !.user = payload.user,
                  !.token = payload.token]

(***************************************************************************)
(* transactionSlice.ts                                                     *)
(***************************************************************************)
RealTimeCap == 50
AlertCap == 100

FiltersInitial ==
    [status |-> {}, riskLevel |-> "all", timeRange |-> "today",
     amountRange |-> <<0, 10000>>]

\* averageRiskScore is kept as the exact quotient num / den
TxInitial ==
    [transactions |-> <<>>, realTimeTransactions |-> <<>>, alerts |-> <<>>,
     totalTransactions |-> 0, totalAmount |-> 0,
     averageRiskScore |-> [num |-> 0, den |-> 1],
     loading |-> FALSE, error |-> NULL, filters |-> FiltersInitial]

fetchTransactionsStart(state) == [state EXCEPT !.loading = TRUE, !.error = NULL]

fetchTransactionsSuccess(state, payload) ==
    [state EXCEPT !.transactions = payload.transactions,
                  !.totalTransactions = payload.totalCount,
                  !.totalAmount = payload.totalAmount,
                  !.averageRiskScore = payload.averageRiskScore,
                  !.loading = FALSE, !.error = NULL]

fetchTransactionsFailure(state, payload) ==
    [state EXCEPT !.loading = FALSE, !.error = payload]

\* the feed as it would be with slice(1) in place of slice(0, 50)
RealTimeFeedDropsNewest(feed, payload) ==
    LET added == Unshift(feed, payload)
    IN  IF Len(added) > RealTimeCap THEN Tail(added) ELSE added

\* unshift, then slice(0, 50) once the feed is longer than 50
RealTimeFeed(feed, payload) ==
    LET added == Unshift(feed, payload)
    IN  IF Len(added) > RealTimeCap THEN SliceTo(added, RealTimeCap) ELSE added

addRealTimeTransaction(state, payload) ==
    LET feed == RealTimeFeed(state.realTimeTransactions, payload)
        allTransactions == state.transactions \o feed
    IN  [state EXCEPT !.realTimeTransactions = feed,
                      !.totalTransactions = @ + 1,
                      !.totalAmount = @ + payload.amount,
                      !.averageRiskScore =
                          [num |-> SumRisk(allTransactions),
                           den |-> Len(allTransactions)]]

\* the alerts as they would be with push in place of unshift
AlertFeedPush(feed, payload) ==
    LET added == Append(feed, payload)
    IN  IF Len(added) > AlertCap THEN SliceTo(added, AlertCap) ELSE added

\* unshift, then slice(0, 100) once there are more than 100 alerts
AlertFeed(feed, payload) ==
    LET added == Unshift(feed, payload)
    IN  IF Len(added) > AlertCap THEN SliceTo(added, AlertCap) ELSE added

addFraudAlert(state, payload) ==
    [state EXCEPT !.alerts = AlertFeed(state.alerts, payload)]

updateTransactionStatus(state, payload) ==
    LET IsIt(t) == t.id = payload.transactionId
        transactionIndex == FindIndex(state.transactions, IsIt)
        realtimeIndex == FindIndex(state.realTimeTransactions, IsIt)
        s1 == IF transactionIndex # 0
              THEN [state EXCEPT !.transactions[transactionIndex].status = payload.status]
              ELSE state
    IN  IF realtimeIndex # 0
        THEN [s1 EXCEPT !.realTimeTransactions[realtimeIndex].status = payload.status]
        ELSE s1

markAlertInvestigated(state, payload) ==
    LET IsIt(a) == a.id = payload.alertId
        alertIndex == FindIndex(state.alerts, IsIt)
    IN  IF alertIndex # 0
        THEN [state EXCEPT !.alerts[alertIndex].investigated = TRUE,
                           !.alerts[alertIndex].falsePositive = payload.falsePositive]
        ELSE state

\* { ...state.filters, ...action.payload }: payload is a partial record
updateFilters(state, payload) ==
    [state EXCEPT !.filters =
        [k \in DOMAIN state.filters |->
            IF k \in DOMAIN payload THEN payload[k] ELSE state.filters[k]]]

clearRealTimeData(state) ==
    [state EXCEPT !.realTimeTransactions = <<>>, !.alerts = <<>>]

(***************************************************************************)
(* fraudSlice.ts                                                           *)
(***************************************************************************)
PatternCap == 50
RefreshIntervalInitial == 30

TimeRanges == {"day", "week", "month", "year"}

FraudInitial ==
    [patterns |-> <<>>, stats |-> NULL, modelPerformance |-> NULL,
     timeRange |-> "day", loading |-> FALSE, error |-> NULL,
     autoRefresh |-> TRUE, refreshInterval |-> RefreshIntervalInitial]

fetchAnalyticsStart(state) == [state EXCEPT !.loading = TRUE, !.error = NULL]

fetchPatternsSuccess(state, payload) ==
    [state EXCEPT !.patterns = payload, !.loading = FALSE, !.error = NULL]

fetchAnalyticsFailure(state, payload) ==
    [state EXCEPT !.loading = FALSE, !.error = payload]

setTimeRange(state, payload) == [state EXCEPT !.timeRange = payload]

toggleAutoRefresh(state) == [state EXCEPT !.autoRefresh = ~@]

\* the else branch of addNewPattern as it would be without the length check
PatternsWithNewUncapped(patterns, payload) == Unshift(patterns, payload)

\* the else branch of addNewPattern: unshift, then slice(0, 50) if longer than 50
PatternsWithNew(patterns, payload) ==
    LET added == Unshift(patterns, payload)
    IN  IF Len(added) > PatternCap THEN SliceTo(added, PatternCap) ELSE added

addNewPattern(state, payload) ==
    LET IsIt(p) == p.id = payload.id
        existingIndex == FindIndex(state.patterns, IsIt)
    IN  IF existingIndex # 0
        THEN [state EXCEPT !.patterns[existingIndex] = payload]
        ELSE [state EXCEPT !.patterns = PatternsWithNew(state.patterns, payload)]

clearAnalytics(state) ==
    [state EXCEPT !.patterns = <<>>, !.stats = NULL, !.modelPerformance = NULL,
                  !.error = NULL]

(***************************************************************************)
(* securitySlice.ts: rules, the model threshold (in percent) and the       *)
(* bookkeeping fields; the notification and API settings are not edited    *)
(* by any modelled operation and are left out.                             *)
(***************************************************************************)
ThresholdInitial == 70

SecurityInitial ==
    [rules |-> <<>>, threshold |-> ThresholdInitial, loading |-> FALSE,
     error |-> NULL, unsavedChanges |-> FALSE, lastSaved |-> NULL]

addSecurityRule(state, payload) ==
    [state EXCEPT !.rules = Append(@, payload), !.unsavedChanges = TRUE]

deleteSecurityRule(state, payload) ==
    LET Keep(rule) == rule.id # payload
    IN  [state EXCEPT !.rules = SelectSeq(@, Keep), !.unsavedChanges = TRUE]

toggleSecurityRule(state, payload) ==
    LET IsIt(r) == r.id = payload
        i == FindIndex(state.rules, IsIt)
    IN  IF i # 0
        THEN [state EXCEPT !.rules[i].enabled = ~@, !.unsavedChanges = TRUE]
        ELSE state

updateFraudThreshold(state, payload) ==
    [state EXCEPT !.threshold = payload, !.unsavedChanges = TRUE]

\* lastSaved = new Date().toISOString(): some timestamp, never null
saveSettingsSuccess(state, now) ==
    [state EXCEPT !.unsavedChanges = FALSE, !.lastSaved = now, !.error = NULL]

(***************************************************************************)
(* App.tsx: what is rendered for a store state and a URL.                  *)
(***************************************************************************)
NavPaths == {"/", "/transactions", "/analytics", "/settings"}

\* a URL no route names, entered in the address bar
Paths == NavPaths \cup {"/unknown"}

ProtectedPages ==
    {"Dashboard", "TransactionMonitor", "FraudAnalytics", "SecuritySettings"}

\* <Routes>: the element of the route matching the pathname
Routes(path) ==
    CASE path = "/" -> "Dashboard"
      [] path = "/transactions" -> "TransactionMonitor"
      [] path = "/analytics" -> "FraudAnalytics"
      [] path = "/settings" -> "SecuritySettings"
      [] OTHER -> "Dashboard"

\* App as it would be without the isAuthenticated check
AppWithoutGuard(isAuthenticated, path) ==
    [view |-> Routes(path), navbar |-> TRUE]

App(isAuthenticated, path) ==
    IF ~isAuthenticated
    THEN [view |-> "Login", navbar |-> FALSE]
    ELSE [view |-> Routes(path), navbar |-> TRUE]

(***************************************************************************)
(* Interval timers and the effects of the pages that own them.             *)
(***************************************************************************)
\* setInterval: a timer id not in use
NewTimerId(ts) ==
    CHOOSE i \in 1..(Cardinality(ts) + 1) :
        /\ \A t \in ts : t.id # i
        /\ \A j \in 1..(i - 1) : \E t \in ts : t.id = j

setInterval(ts, owner) == ts \cup {[id |-> NewTimerId(ts), owner |-> owner]}

clearInterval(ts, id) == {t \in ts : t.id # id}

\* an effect that returns no cleanup function
EffectCleanupMissing(ts, h) == ts

\* the cleanup function an effect returned: () => clearInterval(timer)
EffectCleanup(ts, h) == IF h # 0 THEN clearInterval(ts, h) ELSE ts

\* the auto-refresh effect of FraudAnalytics and of TransactionMonitor:
\* if (!autoRefresh) return; const t = setInterval(...); return cleanup
AutoRefreshEffect(ts, owner, autoRefresh) ==
    IF ~autoRefresh
    THEN [timers |-> ts, handle |-> 0]
    ELSE [timers |-> setInterval(ts, owner), handle |-> NewTimerId(ts)]

FormErrorsInitial == [email |-> "", password |-> ""]

\* The effects and initial local state of a page being mounted, given the
\* timers and the slices at that moment.
Mount(page, ts, tx1, fraud1) ==
    CASE page = "Dashboard" ->
            [timers |-> setInterval(ts, "Dashboard"), handle |-> NewTimerId(ts),
             tx |-> fetchTransactionsStart(tx1), fraud |-> fraud1]
      [] page = "FraudAnalytics" ->
            LET e == AutoRefreshEffect(ts, "FraudAnalytics", fraud1.autoRefresh)
            IN  [timers |-> e.timers, handle |-> e.handle,
                 tx |-> tx1, fraud |-> fetchAnalyticsStart(fraud1)]
      [] page = "TransactionMonitor" ->
            LET e == AutoRefreshEffect(ts, "TransactionMonitor", TRUE)
            IN  [timers |-> e.timers, handle |-> e.handle,
                 tx |-> tx1, fraud |-> fraud1]
      [] OTHER ->
            [timers |-> ts, handle |-> 0, tx |-> tx1, fraud |-> fraud1]

\* React commits a render after the store or the URL changed: when App
\* returns another page, the old page's effect cleanups run and the new
\* page's effects run.
Commit(auth1, tx1, fraud1, path) ==
    LET r == App(auth1.isAuthenticated, path)
        ts == EffectCleanup(timers, handle)
        m == Mount(r.view, ts, tx1, fraud1)
    IN  /\ auth' = auth1
        /\ location' = path
        /\ view' = r.view
        /\ navbar' = r.navbar
        /\ IF r.view # view
           THEN /\ timers' = m.timers
                /\ handle' = m.handle
                /\ tx' = m.tx
                /\ fraud' = m.fraud
                /\ tmAutoRefresh' = TRUE
                /\ formErrors' = FormErrorsInitial
           ELSE /\ timers' = timers
                /\ handle' = handle
                /\ tx' = tx1
                /\ fraud' = fraud1
                /\ UNCHANGED <<tmAutoRefresh, formErrors>>

\* the payload recorded for an operation that carries none
NoPayload == [none |-> TRUE]

Op(type) == [type |-> type, payload |-> NoPayload]

(***************************************************************************)
(* Login.tsx.  Form inputs are sequences of characters.                    *)
(***************************************************************************)
MinPasswordLen == 6

EmailInputs ==
    { <<>>, <<"a", "b">>, <<"a", "@", "b">>, <<"a", " ", "@", "b", ".", "c">>,
      <<"a", "@", "b", ".", "c">> }

PasswordInputs ==
    { <<>>, <<"p", "a", "s", "s", "1">>, <<"p", "a", "s", "s", "1", "2">> }

\* /\S+@\S+\.\S+/.test(s): somewhere in s, a non-space, "@", one or more
\* non-spaces, ".", a non-space
EmailFormatOK(s) ==
    \E p \in 2..Len(s) : \E q \in (p + 2)..(Len(s) - 1) :
        /\ s[p] = "@"
        /\ s[q] = "."
        /\ s[p - 1] # " "
        /\ s[q + 1] # " "
        /\ \A i \in (p + 1)..(q - 1) : s[i] # " "

validateForm(formData) ==
    [email |->
        IF formData.email = <<>> THEN "Email is required"
        ELSE IF ~EmailFormatOK(formData.email) THEN "Email format is invalid"
        ELSE "",
     password |->
        IF formData.password = <<>> THEN "Password is required"
        ELSE IF Len(formData.password) < MinPasswordLen
             THEN "Password must be at least 6 characters"
        ELSE ""]

Users == {"admin-1", "analyst-2"}
Tokens == {"jwt-a", "jwt-b"}

\* response.data of a 2xx answer: <<>> when the body is missing, else the body
Responses == {[data |-> <<>>]} \cup
    {[data |-> <<[user |-> u, token |-> t]>>] : u \in Users, t \in Tokens}

ServerErrorStatus == 500
UnauthorizedStatus == 401

\* what axios rejects with: no response at all (network error), or a response
\* with a status and, possibly, data.message (NULL when absent)
HttpErrors == {[response |-> <<>>]} \cup
    {[response |-> <<[status |-> st, message |-> m]>>] :
        st \in {400, UnauthorizedStatus, ServerErrorStatus, 503},
        m \in {NULL, "", "Account locked"}}

\* the catch block of handleSubmit
ErrorMessage(error) ==
    IF error.response # <<>> /\ error.response[1].message \notin {NULL, ""}
    THEN error.response[1].message
    ELSE IF error.response # <<>> /\ error.response[1].status = UnauthorizedStatus
    THEN "Invalid email or password"
    ELSE IF error.response # <<>> /\ error.response[1].status >= ServerErrorStatus
    THEN "Server error. Please try again later."
    ELSE "Login failed. Please try again."

AttemptInitial == [posts |-> 0, successes |-> 0, failures |-> 0]

\* a catch block that posts the request again
CatchBlockRetry(att) ==
    [req |-> "pending",
     attempt |-> [att EXCEPT !.failures = @ + 1, !.posts = @ + 1]]

\* the catch block of handleSubmit as far as the request goes: it dispatches
\* one loginFailure and sends nothing again
CatchBlock(att) ==
    [req |-> "none", attempt |-> [att EXCEPT !.failures = @ + 1]]

(***************************************************************************)
(* setup.sh: shell variables, the argument loop, the validation of the     *)
(* environment and the steps of main.  Shell variables hold strings, as in *)
(* bash; an unset variable expands to the empty string.                    *)
(***************************************************************************)
\* longest command line explored
MaxArgs == 2

UNSET == ""

EnvironmentFlags == {"-e", "--environment"}
VerboseFlags == {"-v", "--verbose"}
HelpFlags == {"-h", "--help"}
KnownOptions ==
    EnvironmentFlags \cup VerboseFlags \cup HelpFlags \cup
    {"--no-frontend", "--no-backend", "--no-database", "--blockchain",
     "--skip-deps", "--skip-tests"}

\* the words a command line is made of: every option once (short spelling
\* where there are two), a word that is no option, a valid and an invalid
\* environment name
Words ==
    {"-e", "--no-frontend", "--no-backend", "--no-database", "--blockchain",
     "--skip-deps", "--skip-tests", "-v", "-h", "--bogus", "production",
     "staging"}

CommandLines == UNION {[1..n -> Words] : n \in 0..MaxArgs}

\* SKIP_TESTS as the calling environment hands it to the script
InheritedSkipTests == {UNSET, "false", "true"}

\* the shell at the first line of the script, after the defaults block
SetupInitial ==
    [pc |-> "idle",
     argv |-> <<>>,
     args |-> <<>>,
     ENVIRONMENT |-> "development",
     INSTALL_FRONTEND |-> "true",
     INSTALL_BACKEND |-> "true",
     INSTALL_DATABASE |-> "true",
     INSTALL_BLOCKCHAIN |-> "false",
     SKIP_DEPENDENCIES |-> "false",
     SKIP_TESTS |-> UNSET,
     VERBOSE |-> "false",
     rc |-> 0,
     step |-> 0,
     ran |-> <<>>,
     failed |-> {},
     usage |-> FALSE,
     completed |-> FALSE,
     status |-> -1]

\* exit n
exit(s, n) == [s EXCEPT !.pc = "exited", !.status = n]

\* a shell without errexit: a command that fails is followed by the next one
ErrExitOff(s) == s

\* set -e: a simple command that returns non-zero ends the script with that
\* status
ErrExit(s) == IF s.rc # 0 THEN exit(s, s.rc) ELSE s

\* shift n: fails, shifting nothing, when fewer than n arguments are left
shift(s, n) ==
    IF n <= Len(s.args)
    THEN [s EXCEPT !.args = SubSeq(@, n + 1, Len(@)), !.rc = 0]
    ELSE [s EXCEPT !.rc = 1]

\* show_usage
show_usage(s) == [s EXCEPT !.usage = TRUE]

\* one round of the while loop: the case statement on $1
ParseArgument(s) ==
    LET arg == Head(s.args)
    IN  CASE arg \in EnvironmentFlags ->
                ErrExit(shift([s EXCEPT !.ENVIRONMENT =
                                  IF Len(s.args) >= 2 THEN s.args[2] ELSE UNSET],
                              2))
          [] arg = "--no-frontend" ->
                ErrExit(shift([s EXCEPT !.INSTALL_FRONTEND = "false"], 1))
          [] arg = "--no-backend" ->
                ErrExit(shift([s EXCEPT !.INSTALL_BACKEND = "false"], 1))
          [] arg = "--no-database" ->
                ErrExit(shift([s EXCEPT !.INSTALL_DATABASE = "false"], 1))
          [] arg = "--blockchain" ->
                ErrExit(shift([s EXCEPT !.INSTALL_BLOCKCHAIN = "true"], 1))
          [] arg = "--skip-deps" ->
                ErrExit(shift([s EXCEPT !.SKIP_DEPENDENCIES = "true"], 1))
          [] arg = "--skip-tests" ->
                ErrExit(shift([s EXCEPT !.SKIP_TESTS = "true"], 1))
          [] arg \in VerboseFlags ->
                ErrExit(shift([s EXCEPT !.VERBOSE = "true"], 1))
          [] arg \in HelpFlags -> exit(show_usage(s), 0)
          [] OTHER -> exit(show_usage(s), 1)

\* a validation that lets every name through
AnyEnvironment(env) == TRUE

\* "$ENVIRONMENT" =~ ^(development|testing|production)$
ValidEnvironment(env) == env \in {"development", "testing", "production"}

\* the steps main calls, in the order of its text
MainSteps ==
    <<"check_system_requirements", "create_directories", "setup_environment",
      "install_python_dependencies", "install_node_dependencies",
      "setup_database", "setup_blockchain", "build_frontend",
      "setup_ml_models", "setup_monitoring", "run_tests",
      "verify_installation">>

StepIndex(name) == CHOOSE k \in DOMAIN MainSteps : MainSteps[k] = name

\* the test main puts in front of the call of a step
StepEnabled(s, name) ==
    CASE name = "check_system_requirements" -> s.SKIP_DEPENDENCIES = "false"
      [] name = "install_python_dependencies" ->
            s.SKIP_DEPENDENCIES = "false" /\ s.INSTALL_BACKEND = "true"
      [] name = "install_node_dependencies" ->
            s.SKIP_DEPENDENCIES = "false" /\ s.INSTALL_FRONTEND = "true"
      [] name = "setup_database" -> s.INSTALL_DATABASE = "true"
      [] name = "setup_blockchain" -> s.INSTALL_BLOCKCHAIN = "true"
      [] name = "build_frontend" -> s.INSTALL_FRONTEND = "true"
      [] name = "setup_ml_models" -> s.INSTALL_BACKEND = "true"
      [] name = "run_tests" -> s.SKIP_TESTS = "false"
      [] OTHER -> TRUE

\* the index of the first step at or after k whose test passes
NextStep(s, k) ==
    LET later == {j \in k..Len(MainSteps) : StepEnabled(s, MainSteps[j])}
    IN  IF later = {} THEN Len(MainSteps) + 1
        ELSE CHOOSE j \in later : \A i \in later : j <= i

\* the wait loops of setup_database and setup_blockchain
DatabaseTimeout == 60
GanacheTimeout == 30
PollSeconds == 2

\* the polls at which the service may first answer; -1: it never does
ReadyAt(timeout) == {-1, 0, timeout - PollSeconds}

\* counter when the while loop is left
RECURSIVE WaitLoop(_, _, _)
WaitLoop(counter, timeout, readyAt) ==
    IF counter < timeout
    THEN IF readyAt # -1 /\ readyAt <= counter
         THEN counter
         ELSE WaitLoop(counter + PollSeconds, timeout, readyAt)
    ELSE counter

\* the statuses the commands of a step can leave, 0 being success
CommandStatuses == {0, 1}

\* what a wait loop followed by further commands returns
WaitThenRun(timeout) ==
    {IF WaitLoop(0, timeout, readyAt) >= timeout THEN 1 ELSE rc :
        readyAt \in ReadyAt(timeout), rc \in CommandStatuses}

\* the statuses a step can return
StepStatuses(s, name) ==
    CASE name = "setup_database" /\ s.ENVIRONMENT # "development" ->
            WaitThenRun(DatabaseTimeout)
      [] name = "setup_blockchain" -> WaitThenRun(GanacheTimeout)
      [] OTHER -> CommandStatuses

(***************************************************************************)
(* The application, driven through its user interface.                     *)
(***************************************************************************)
Init ==
    /\ auth = AuthInitial
    /\ storage = NULL
    /\ tx = TxInitial
    /\ fraud = FraudInitial
    /\ security = SecurityInitial
    /\ location = "/"
    /\ view = "Login"
    /\ navbar = FALSE
    /\ timers = {}
    /\ handle = 0
    /\ tmAutoRefresh = TRUE
    /\ formErrors = FormErrorsInitial
    /\ req = "none"
    /\ attempt = AttemptInitial
    /\ last = Op("init")
    /\ rtLog = <<>>
    /\ alertLog = <<>>
    /\ fetchedLen = 0
    /\ setup = SetupInitial

\* handleSubmit up to the await: validation, loginStart, the POST.  The
\* form's fields and button are disabled while auth.loading.
Submit ==
    /\ view = "Login"
    /\ ~auth.loading
    /\ \E email \in EmailInputs, password \in PasswordInputs :
        LET errors == validateForm([email |-> email, password |-> password])
        IN  /\ formErrors' = errors
            /\ IF errors.email # "" \/ errors.password # ""
               THEN /\ last' = Op("submitRejected")
                    /\ UNCHANGED <<auth, req, attempt>>
               ELSE /\ auth' = loginStart(auth)
                    /\ req' = "pending"
                    /\ attempt' = [AttemptInitial EXCEPT !.posts = 1]
                    /\ last' = Op("loginStart")
    /\ UNCHANGED <<storage, tx, fraud, security, location, view, navbar,
                   timers, handle, tmAutoRefresh>>
    /\ UNCHANGED logVars
    /\ UNCHANGED setup

\* handleSubmit after the await returned a response: loginSuccess, or, when
\* destructuring response.data throws, the catch block's loginFailure
LoginResolved ==
    /\ req = "pending"
    /\ \E response \in Responses :
        IF response.data # <<>>
        THEN /\ Commit(loginSuccess(auth, response.data[1]), tx, fraud, location)
             /\ storage' = loginSuccessStorage(storage, response.data[1])
             /\ req' = "none"
             /\ attempt' = [attempt EXCEPT !.successes = @ + 1]
             /\ last' = [type |-> "loginSuccess", payload |-> response.data[1]]
        ELSE /\ Commit(loginFailure(auth, ErrorMessage([response |-> <<>>])),
                       tx, fraud, location)
             /\ storage' = storage
             /\ req' = CatchBlock(attempt).req
             /\ attempt' = CatchBlock(attempt).attempt
             /\ last' = Op("loginFailure")
    /\ UNCHANGED security
    /\ UNCHANGED logVars
    /\ UNCHANGED setup

\* handleSubmit after the await threw: the catch block
LoginRejected ==
    /\ req = "pending"
    /\ \E error \in HttpErrors :
        Commit(loginFailure(auth, ErrorMessage(error)), tx, fraud, location)
    /\ req' = CatchBlock(attempt).req
    /\ attempt' = CatchBlock(attempt).attempt
    /\ last' = Op("loginFailure")
    /\ UNCHANGED <<storage, security>>
    /\ UNCHANGED logVars
    /\ UNCHANGED setup

\* Navbar's handleNavigate
Navigate ==
    /\ navbar
    /\ \E path \in NavPaths : Commit(auth, tx, fraud, path)
    /\ last' = Op("navigate")
    /\ UNCHANGED <<storage, security, req, attempt>>
    /\ UNCHANGED logVars
    /\ UNCHANGED setup

\* Navbar's handleLogout: dispatch(logout())
Logout ==
    /\ navbar
    /\ Commit(logout(auth), tx, fraud, location)
    /\ storage' = logoutStorage(storage)
    /\ last' = Op("logout")
    /\ UNCHANGED <<security, req, attempt>>
    /\ UNCHANGED logVars
    /\ UNCHANGED setup

\* The page is (re)loaded at some URL: index.tsx creates the store from the
\* slices' initial states and renders App; timers and a pending request of
\* the old page are gone, localStorage is kept.
Reload ==
    /\ \E path \in Paths :
        /\ location' = path
        /\ view' = App(AuthInitial.isAuthenticated, path).view
        /\ navbar' = App(AuthInitial.isAuthenticated, path).navbar
    /\ auth' = AuthInitial
    /\ tx' = TxInitial
    /\ fraud' = FraudInitial
    /\ security' = SecurityInitial
    /\ timers' = {}
    /\ handle' = 0
    /\ tmAutoRefresh' = TRUE
    /\ formErrors' = FormErrorsInitial
    /\ req' = "none"
    /\ attempt' = AttemptInitial
    /\ last' = Op("reload")
    /\ UNCHANGED storage
    /\ UNCHANGED logVars
    /\ UNCHANGED setup

\* Dashboard's 5 s timer: setLastUpdate(new Date())
DashboardTick ==
    /\ \E t \in timers : t.owner = "Dashboard"
    /\ last' = Op("dashboardTick")
    /\ UNCHANGED storeVars
    /\ UNCHANGED uiVars
    /\ UNCHANGED logVars
    /\ UNCHANGED setup

\* FraudAnalytics' 30 s timer: dispatch(fetchAnalyticsStart())
FraudAnalyticsTick ==
    /\ \E t \in timers : t.owner = "FraudAnalytics"
    /\ fraud' = fetchAnalyticsStart(fraud)
    /\ last' = Op("fraudAnalyticsTick")
    /\ UNCHANGED <<auth, storage, tx, security>>
    /\ UNCHANGED uiVars
    /\ UNCHANGED logVars
    /\ UNCHANGED setup

\* TransactionMonitor's 2 s timer: console.log
TransactionMonitorTick ==
    /\ \E t \in timers : t.owner = "TransactionMonitor"
    /\ last' = Op("transactionMonitorTick")
    /\ UNCHANGED storeVars
    /\ UNCHANGED uiVars
    /\ UNCHANGED logVars
    /\ UNCHANGED setup

\* FraudAnalytics' Auto Refresh button: dispatch(toggleAutoRefresh()); the
\* effect depending on autoRefresh is cleaned up and run again
FraudToggleAutoRefresh ==
    /\ view = "FraudAnalytics"
    /\ fraud' = toggleAutoRefresh(fraud)
    /\ LET e == AutoRefreshEffect(EffectCleanup(timers, handle), "FraudAnalytics",
                                  fraud'.autoRefresh)
       IN  timers' = e.timers /\ handle' = e.handle
    /\ last' = Op("toggleAutoRefresh")
    /\ UNCHANGED <<auth, storage, tx, security, location, view, navbar,
                   tmAutoRefresh, formErrors, req, attempt>>
    /\ UNCHANGED logVars
    /\ UNCHANGED setup

\* FraudAnalytics' time range Select: dispatch(setTimeRange(value)); the
\* effect depending on timeRange dispatches fetchAnalyticsStart
FraudSetTimeRange ==
    /\ view = "FraudAnalytics"
    /\ \E value \in TimeRanges :
        fraud' = IF value # fraud.timeRange
                 THEN fetchAnalyticsStart(setTimeRange(fraud, value))
                 ELSE setTimeRange(fraud, value)
    /\ last' = Op("setTimeRange")
    /\ UNCHANGED <<auth, storage, tx, security>>
    /\ UNCHANGED uiVars
    /\ UNCHANGED logVars
    /\ UNCHANGED setup

\* TransactionMonitor's Auto Refresh button: setAutoRefresh(!autoRefresh)
MonitorToggleAutoRefresh ==
    /\ view = "TransactionMonitor"
    /\ tmAutoRefresh' = ~tmAutoRefresh
    /\ LET e == AutoRefreshEffect(EffectCleanup(timers, handle),
                                  "TransactionMonitor", tmAutoRefresh')
       IN  timers' = e.timers /\ handle' = e.handle
    /\ last' = Op("setAutoRefresh")
    /\ UNCHANGED storeVars
    /\ UNCHANGED <<location, view, navbar, formErrors, req, attempt>>
    /\ UNCHANGED logVars
    /\ UNCHANGED setup

(***************************************************************************)
(* TransactionMonitor.tsx: the filtered transaction list.                  *)
(***************************************************************************)
riskThresholds == [low |-> 30, medium |-> 70, high |-> 90]

RiskLevels == {"all", "low", "medium", "high"}
Statuses == {"pending", "approved", "declined", "flagged"}

\* the predicate given to allTransactions.filter
PassesFilters(transaction, filters) ==
    IF filters.status # {} /\ transaction.status \notin filters.status
    THEN FALSE
    ELSE IF /\ filters.riskLevel # "all"
            /\ transaction.riskScore > riskThresholds[filters.riskLevel]
    THEN FALSE
    ELSE IF \/ transaction.amount < filters.amountRange[1]
            \/ transaction.amount > filters.amountRange[2]
    THEN FALSE
    ELSE TRUE

filteredTransactions(state) ==
    LET allTransactions == state.realTimeTransactions \o state.transactions
        Keep(t) == PassesFilters(t, state.filters)
    IN  SelectSeq(allTransactions, Keep)

\* what the filter dialog can hand to handleFilterChange
FilterChanges ==
    {[riskLevel |-> r] : r \in RiskLevels}
    \cup {[status |-> s] : s \in {{}, {"flagged"}, {"approved", "declined"}}}
    \cup {[amountRange |-> a] : a \in {<<0, 10000>>, <<0, 100>>, <<100, 10000>>}}
    \cup {[status |-> {}, riskLevel |-> "all", amountRange |-> <<0, 10000>>]}

\* the filter changes offered while the whole application is explored
AppFilterChanges ==
    {[riskLevel |-> "high"],
     [status |-> {}, riskLevel |-> "all", amountRange |-> <<0, 10000>>]}

\* handleFilterChange: dispatch(updateFilters(newFilters))
MonitorFilterChange ==
    /\ view = "TransactionMonitor"
    /\ \E newFilters \in AppFilterChanges : tx' = updateFilters(tx, newFilters)
    /\ last' = Op("updateFilters")
    /\ UNCHANGED <<auth, storage, fraud, security>>
    /\ UNCHANGED uiVars
    /\ UNCHANGED logVars
    /\ UNCHANGED setup

(***************************************************************************)
(* SecuritySettings.tsx                                                    *)
(***************************************************************************)
MaxRules == 1

ThresholdInputs == {90}

Timestamps == {"2025-01-01T00:00:00.000Z"}

\* `rule_${Date.now()}`: an id no rule has yet
NewRuleId(rules) ==
    CHOOSE i \in 1..(Len(rules) + 1) : \A k \in 1..Len(rules) : rules[k].id # i

\* handleSaveRule for a new rule: dispatch(addSecurityRule(ruleData))
SettingsAddRule ==
    /\ view = "SecuritySettings"
    /\ Len(security.rules) < MaxRules
    /\ security' = addSecurityRule(security,
                       [id |-> NewRuleId(security.rules), enabled |-> TRUE])
    /\ last' = Op("addSecurityRule")
    /\ UNCHANGED <<auth, storage, tx, fraud>>
    /\ UNCHANGED uiVars
    /\ UNCHANGED logVars
    /\ UNCHANGED setup

\* handleDeleteRule: dispatch(deleteSecurityRule(ruleId))
SettingsDeleteRule ==
    /\ view = "SecuritySettings"
    /\ \E k \in 1..Len(security.rules) :
        security' = deleteSecurityRule(security, security.rules[k].id)
    /\ last' = Op("deleteSecurityRule")
    /\ UNCHANGED <<auth, storage, tx, fraud>>
    /\ UNCHANGED uiVars
    /\ UNCHANGED logVars
    /\ UNCHANGED setup

\* the rule's Switch: dispatch(toggleSecurityRule(rule.id))
SettingsToggleRule ==
    /\ view = "SecuritySettings"
    /\ \E k \in 1..Len(security.rules) :
        security' = toggleSecurityRule(security, security.rules[k].id)
    /\ last' = Op("toggleSecurityRule")
    /\ UNCHANGED <<auth, storage, tx, fraud>>
    /\ UNCHANGED uiVars
    /\ UNCHANGED logVars
    /\ UNCHANGED setup

\* the threshold Slider: dispatch(updateFraudThreshold(value / 100))
SettingsThreshold ==
    /\ view = "SecuritySettings"
    /\ \E value \in ThresholdInputs :
        security' = updateFraudThreshold(security, value)
    /\ last' = Op("updateFraudThreshold")
    /\ UNCHANGED <<auth, storage, tx, fraud>>
    /\ UNCHANGED uiVars
    /\ UNCHANGED logVars
    /\ UNCHANGED setup

\* handleSaveAllSettings: dispatch(saveSettingsSuccess())
SettingsSaveAll ==
    /\ view = "SecuritySettings"
    /\ \E now \in Timestamps : security' = saveSettingsSuccess(security, now)
    /\ last' = Op("saveSettingsSuccess")
    /\ UNCHANGED <<auth, storage, tx, fraud>>
    /\ UNCHANGED uiVars
    /\ UNCHANGED logVars
    /\ UNCHANGED setup

Next ==
    \/ Submit
    \/ LoginResolved
    \/ LoginRejected
    \/ Navigate
    \/ Logout
    \/ Reload
    \/ DashboardTick
    \/ FraudAnalyticsTick
    \/ TransactionMonitorTick
    \/ FraudToggleAutoRefresh
    \/ FraudSetTimeRange
    \/ MonitorToggleAutoRefresh
    \/ MonitorFilterChange
    \/ SettingsAddRule
    \/ SettingsDeleteRule
    \/ SettingsToggleRule
    \/ SettingsThreshold
    \/ SettingsSaveAll

Spec == Init /\ [][Next]_vars

(***************************************************************************)
(* The application with what the browser guarantees: a live interval timer *)
(* keeps firing and the login request completes, with a response or with   *)
(* an error.  Nothing is assumed of what the user does.                    *)
(***************************************************************************)
FairSpec ==
    /\ Spec
    /\ WF_vars(DashboardTick)
    /\ WF_vars(FraudAnalyticsTick)
    /\ WF_vars(TransactionMonitorTick)
    /\ WF_vars(LoginResolved \/ LoginRejected)

(***************************************************************************)
(* The login form and its request: submitting, the two ways the request    *)
(* completes, and what ends a session or a page (logout, navigation,       *)
(* reload).  Every request completes.                                      *)
(***************************************************************************)
LoginNext ==
    \/ Submit
    \/ LoginResolved
    \/ LoginRejected
    \/ Navigate
    \/ Logout
    \/ Reload

LoginSpec ==
    /\ Init
    /\ [][LoginNext]_vars
    /\ WF_vars(LoginResolved \/ LoginRejected)

(***************************************************************************)
(* The auth slice on its own: any auth action, with any payload, in any    *)
(* order.                                                                  *)
(***************************************************************************)
Credentials == [user : Users, token : Tokens]

ErrorMessages ==
    {"Invalid email or password", "Account locked",
     "Server error. Please try again later."}

DispatchLoginStart ==
    /\ auth' = loginStart(auth)
    /\ last' = Op("loginStart")
    /\ UNCHANGED <<storage, tx, fraud, security>>
    /\ UNCHANGED uiVars
    /\ UNCHANGED logVars
    /\ UNCHANGED setup

DispatchLoginSuccess ==
    /\ \E payload \in Credentials :
        /\ auth' = loginSuccess(auth, payload)
        /\ storage' = loginSuccessStorage(storage, payload)
        /\ last' = [type |-> "loginSuccess", payload |-> payload]
    /\ UNCHANGED <<tx, fraud, security>>
    /\ UNCHANGED uiVars
    /\ UNCHANGED logVars
    /\ UNCHANGED setup

DispatchLoginFailure ==
    /\ \E payload \in ErrorMessages : auth' = loginFailure(auth, payload)
    /\ last' = Op("loginFailure")
    /\ UNCHANGED <<storage, tx, fraud, security>>
    /\ UNCHANGED uiVars
    /\ UNCHANGED logVars
    /\ UNCHANGED setup

DispatchLogout ==
    /\ auth' = logout(auth)
    /\ storage' = logoutStorage(storage)
    /\ last' = Op("logout")
    /\ UNCHANGED <<tx, fraud, security>>
    /\ UNCHANGED uiVars
    /\ UNCHANGED logVars
    /\ UNCHANGED setup

DispatchClearError ==
    /\ auth' = clearError(auth)
    /\ last' = Op("clearError")
    /\ UNCHANGED <<storage, tx, fraud, security>>
    /\ UNCHANGED uiVars
    /\ UNCHANGED logVars
    /\ UNCHANGED setup

DispatchRestoreAuth ==
    /\ \E payload \in Credentials :
        /\ auth' = restoreAuth(auth, payload)
        /\ last' = [type |-> "restoreAuth", payload |-> payload]
    /\ UNCHANGED <<storage, tx, fraud, security>>
    /\ UNCHANGED uiVars
    /\ UNCHANGED logVars
    /\ UNCHANGED setup

AuthNext ==
    \/ DispatchLoginStart
    \/ DispatchLoginSuccess
    \/ DispatchLoginFailure
    \/ DispatchLogout
    \/ DispatchClearError
    \/ DispatchRestoreAuth

AuthSpec == Init /\ [][AuthNext]_vars

(***************************************************************************)
(* The real-time feed of the transaction slice.  The server numbers the    *)
(* transactions it pushes; amount and risk score are sample data fixed by  *)
(* the number.                                                             *)
(***************************************************************************)
MaxRtAdds == 52

\* the transactions a reviewer may open: two known ids and an unknown one
ReviewedIds == {0, 1, 2}

AmountOf(id) == 10 * ((id % 3) + 1)
RiskOf(id) == (id * 7) % 101

PushedTransaction(id) ==
    [id |-> id, amount |-> AmountOf(id), riskScore |-> RiskOf(id),
     status |-> "pending"]

DispatchAddRealTimeTransaction ==
    /\ tx.totalTransactions < MaxRtAdds
    /\ LET payload == PushedTransaction(tx.totalTransactions + 1)
       IN  /\ tx' = addRealTimeTransaction(tx, payload)
           /\ rtLog' = Append(rtLog, payload.id)
    /\ last' = Op("addRealTimeTransaction")
    /\ UNCHANGED <<auth, storage, fraud, security, alertLog, fetchedLen>>
    /\ UNCHANGED uiVars
    /\ UNCHANGED setup

DispatchUpdateTransactionStatus ==
    /\ \E id \in ReviewedIds, status \in {"approved", "declined"} :
        tx' = updateTransactionStatus(tx, [transactionId |-> id, status |-> status])
    /\ last' = Op("updateTransactionStatus")
    /\ UNCHANGED <<auth, storage, fraud, security>>
    /\ UNCHANGED uiVars
    /\ UNCHANGED logVars
    /\ UNCHANGED setup

DispatchClearRealTimeData ==
    /\ tx' = clearRealTimeData(tx)
    /\ rtLog' = <<>>
    /\ alertLog' = <<>>
    /\ last' = Op("clearRealTimeData")
    /\ UNCHANGED <<auth, storage, fraud, security, fetchedLen>>
    /\ UNCHANGED uiVars
    /\ UNCHANGED setup

RtNext ==
    \/ DispatchAddRealTimeTransaction
    \/ DispatchUpdateTransactionStatus
    \/ DispatchClearRealTimeData

RtSpec == Init /\ [][RtNext]_vars

(***************************************************************************)
(* The alert feed of the transaction slice.                                *)
(***************************************************************************)
MaxAlertAdds == 102

RaisedAlert(id) == [id |-> id, investigated |-> FALSE, falsePositive |-> FALSE]

DispatchAddFraudAlert ==
    /\ Len(alertLog) < MaxAlertAdds
    /\ LET payload == RaisedAlert(Len(alertLog) + 1)
       IN  /\ tx' = addFraudAlert(tx, payload)
           /\ alertLog' = Append(alertLog, payload.id)
    /\ last' = Op("addFraudAlert")
    /\ UNCHANGED <<auth, storage, fraud, security, rtLog, fetchedLen>>
    /\ UNCHANGED uiVars
    /\ UNCHANGED setup

DispatchMarkAlertInvestigated ==
    /\ \E id \in ReviewedIds, falsePositive \in BOOLEAN :
        tx' = markAlertInvestigated(tx, [alertId |-> id,
                                         falsePositive |-> falsePositive])
    /\ last' = Op("markAlertInvestigated")
    /\ UNCHANGED <<auth, storage, fraud, security>>
    /\ UNCHANGED uiVars
    /\ UNCHANGED logVars
    /\ UNCHANGED setup

AlertNext ==
    \/ DispatchAddFraudAlert
    \/ DispatchMarkAlertInvestigated
    \/ DispatchClearRealTimeData

AlertSpec == Init /\ [][AlertNext]_vars

(***************************************************************************)
(* The pattern list of the fraud slice.                                    *)
(***************************************************************************)
MaxPatternId == 53

\* sizes of the pattern lists the server answers with
FetchSizes == {0, 2, PatternCap + 1}

FetchedPatterns(n) == [i \in 1..n |-> [id |-> i, frequency |-> 1]]

\* the id of a newly detected pattern: one past the ids in the list
NewPatternId(patterns) ==
    IF patterns = <<>> THEN 1
    ELSE 1 + (CHOOSE m \in {patterns[i].id : i \in 1..Len(patterns)} :
                 \A i \in 1..Len(patterns) : patterns[i].id <= m)

DispatchFetchPatternsSuccess ==
    /\ \E n \in FetchSizes :
        /\ fraud' = fetchPatternsSuccess(fraud, FetchedPatterns(n))
        /\ fetchedLen' = n
    /\ last' = Op("fetchPatternsSuccess")
    /\ UNCHANGED <<auth, storage, tx, security, rtLog, alertLog>>
    /\ UNCHANGED uiVars
    /\ UNCHANGED setup

\* a pattern detected in real time: a new one, or new data for pattern 1 or 2
DispatchAddNewPattern ==
    /\ \E id \in {1, 2, NewPatternId(fraud.patterns)} :
        /\ id <= MaxPatternId
        /\ fraud' = addNewPattern(fraud, [id |-> id, frequency |-> 2])
        /\ last' = [type |-> "addNewPattern",
                    payload |-> [id |-> id,
                                 isNew |-> \A i \in 1..Len(fraud.patterns) :
                                              fraud.patterns[i].id # id]]
    /\ UNCHANGED <<auth, storage, tx, security>>
    /\ UNCHANGED uiVars
    /\ UNCHANGED logVars
    /\ UNCHANGED setup

DispatchClearAnalytics ==
    /\ fraud' = clearAnalytics(fraud)
    /\ fetchedLen' = 0
    /\ last' = Op("clearAnalytics")
    /\ UNCHANGED <<auth, storage, tx, security, rtLog, alertLog>>
    /\ UNCHANGED uiVars
    /\ UNCHANGED setup

FraudNext ==
    \/ DispatchFetchPatternsSuccess
    \/ DispatchAddNewPattern
    \/ DispatchClearAnalytics

FraudSpec == Init /\ [][FraudNext]_vars

(***************************************************************************)
(* The transaction list TransactionMonitor shows, under any filters.       *)
(***************************************************************************)
MaxListLen == 1

\* risk scores on both sides of every band edge
RiskSamples == {0, 30, 31, 70, 71, 90, 91, 100}

\* a small approved purchase or a large flagged one, at each risk score
SampleTransactions ==
    {[id |-> 1, amount |-> k.amount, riskScore |-> r, status |-> k.status] :
        k \in {[amount |-> 50, status |-> "approved"],
               [amount |-> 500, status |-> "flagged"]},
        r \in RiskSamples}

SampleLists ==
    UNION {[1..n -> SampleTransactions] : n \in 0..MaxListLen}

RECURSIVE SumAmount(_)
SumAmount(s) == IF s = <<>> THEN 0 ELSE Head(s).amount + SumAmount(Tail(s))

\* the answer of the transactions endpoint for a list
FetchedTransactions(list) ==
    [transactions |-> [i \in 1..Len(list) |-> [list[i] EXCEPT !.id = i]],
     totalCount |-> Len(list),
     totalAmount |-> SumAmount(list),
     averageRiskScore |-> [num |-> SumRisk(list), den |-> Max(Len(list), 1)]]

DispatchFetchTransactionsSuccess ==
    /\ \E list \in SampleLists :
        tx' = fetchTransactionsSuccess(tx, FetchedTransactions(list))
    /\ last' = Op("fetchTransactionsSuccess")
    /\ UNCHANGED <<auth, storage, fraud, security>>
    /\ UNCHANGED uiVars
    /\ UNCHANGED logVars
    /\ UNCHANGED setup

DispatchUpdateFilters ==
    /\ \E newFilters \in FilterChanges : tx' = updateFilters(tx, newFilters)
    /\ last' = Op("updateFilters")
    /\ UNCHANGED <<auth, storage, fraud, security>>
    /\ UNCHANGED uiVars
    /\ UNCHANGED logVars
    /\ UNCHANGED setup

FilterNext ==
    \/ DispatchFetchTransactionsSuccess
    \/ DispatchUpdateFilters

FilterSpec == Init /\ [][FilterNext]_vars

(***************************************************************************)
(* One run of setup.sh.                                                    *)
(***************************************************************************)
\* the script is started on a command line, in an environment
Invoke ==
    /\ setup.pc = "idle"
    /\ \E argv \in CommandLines, inherited \in InheritedSkipTests :
        setup' = [SetupInitial EXCEPT !.pc = "parse", !.argv = argv,
                                      !.args = argv, !.SKIP_TESTS = inherited]
    /\ UNCHANGED appVars

\* while [[ $# -gt 0 ]]: one round
ParseNext ==
    /\ setup.pc = "parse"
    /\ setup.args # <<>>
    /\ setup' = ParseArgument(setup)
    /\ UNCHANGED appVars

\* the loop is left: the environment is validated and main is called
ValidateAndEnter ==
    /\ setup.pc = "parse"
    /\ setup.args = <<>>
    /\ setup' = IF ~ValidEnvironment(setup.ENVIRONMENT)
                THEN exit(setup, 1)
                ELSE [setup EXCEPT !.pc = "main", !.step = NextStep(setup, 1)]
    /\ UNCHANGED appVars

\* main calls the next step whose test passes
RunStep ==
    /\ setup.pc = "main"
    /\ setup.step <= Len(MainSteps)
    /\ LET name == MainSteps[setup.step]
       IN  \E rc \in StepStatuses(setup, name) :
            LET returned == [setup EXCEPT
                                !.ran = Append(@, name),
                                !.rc = rc,
                                !.failed = IF rc # 0 THEN @ \cup {name} ELSE @]
                after == ErrExit(returned)
            IN  setup' = IF after.pc = "exited" THEN after
                         ELSE [after EXCEPT
                                  !.step = NextStep(after, setup.step + 1)]
    /\ UNCHANGED appVars

\* print_success "Setup completed successfully!", the next steps, the end of
\* the script
Complete ==
    /\ setup.pc = "main"
    /\ setup.step > Len(MainSteps)
    /\ setup' = exit([setup EXCEPT !.completed = TRUE, !.rc = 0], 0)
    /\ UNCHANGED appVars

SetupNext ==
    \/ Invoke
    \/ ParseNext
    \/ ValidateAndEnter
    \/ RunStep
    \/ Complete

SetupSpec == Init /\ [][SetupNext]_vars

(***************************************************************************)
(* Properties.                                                             *)
(***************************************************************************)

\* C1: after logout every slice holds its initial value: the auth slice is
\* cleared, the token is gone from localStorage, and the transaction, fraud
\* and security slices are back to their initial states.
C1_LogoutClearsAllState ==
    last.type = "logout" =>
        /\ auth = AuthInitial
        /\ storage = NULL
        /\ tx = TxInitial
        /\ fraud = FraudInitial
        /\ security = SecurityInitial

\* C2: after loginSuccess(payload), from whatever auth state, the user is
\* authenticated, user and token are the payload's, loading is false and
\* error is null.
C2_LoginSuccessSetsAuth ==
    last.type = "loginSuccess" =>
        /\ auth.isAuthenticated
        /\ auth.user = last.payload.user
        /\ auth.token = last.payload.token
        /\ ~auth.loading
        /\ auth.error = NULL

\* C2 witness: loginSuccess has replaced another user's credentials.
C2_Witness ==
    /\ last.type = "loginSuccess"
    /\ auth.user = "analyst-2"
    /\ auth.token = "jwt-b"
    /\ storage = "jwt-b"

\* C3: the Navbar and the protected pages are mounted only while
\* isAuthenticated; while it is false the Login page is mounted, whatever the
\* URL; right after a logout the Login page is mounted.
C3_ProtectedPagesNeedAuth ==
    /\ (navbar \/ view \in ProtectedPages) => auth.isAuthenticated
    /\ ~auth.isAuthenticated => (view = "Login" /\ ~navbar)
    /\ auth.isAuthenticated => (view = Routes(location) /\ navbar)
    /\ last.type = "logout" => view = "Login"

\* C3 witness: a logout from the analytics page has led to the Login page.
C3_Witness ==
    /\ last.type = "logout"
    /\ location = "/analytics"
    /\ view = "Login"
    /\ ~navbar

\* C4: every live timer belongs to the mounted page and is the one that
\* page's effect holds, so there is at most one; a timer callback runs only
\* for the page that is mounted; no timer is left once the page is torn down.
C4_TimersClearedOnTeardown ==
    /\ \A t \in timers : t.owner = view /\ t.id = handle
    /\ Cardinality(timers) <= 1
    /\ view \in {"Login", "SecuritySettings"} => timers = {}
    /\ last.type = "dashboardTick" => view = "Dashboard"
    /\ last.type = "fraudAnalyticsTick" => view = "FraudAnalytics"
    /\ last.type = "transactionMonitorTick" => view = "TransactionMonitor"

\* C4 witness: the user logged out of the analytics page, whose refresh
\* timer had fired, and no timer is left.
C4_Witness ==
    /\ last.type = "logout"
    /\ location = "/analytics"
    /\ fraud.autoRefresh
    /\ fraud.loading
    /\ timers = {}

\* C5: an accepted submission posts once; a failure dispatches one
\* loginFailure and posts nothing again, and leaves a non-empty message in
\* auth.error, loading false and isAuthenticated false.
C5_FailedLoginNotRetried ==
    /\ attempt.posts <= 1
    /\ req = "pending" => attempt = [posts |-> 1, successes |-> 0, failures |-> 0]
    /\ last.type = "loginStart" => req = "pending"
    /\ last.type = "loginFailure" =>
        /\ attempt = [posts |-> 1, successes |-> 0, failures |-> 1]
        /\ req = "none"
        /\ auth.error \notin {NULL, ""}
        /\ ~auth.loading
        /\ ~auth.isAuthenticated

\* C5 witness: a login was refused with a server error.
C5_Witness ==
    /\ last.type = "loginFailure"
    /\ auth.error = "Server error. Please try again later."
    /\ attempt.failures = 1

\* C6: when the app starts with an auth_token in localStorage, the user is
\* authenticated again and a protected page is shown.
C6_ReloadRestoresAuth ==
    (last.type = "reload" /\ storage # NULL) =>
        (auth.isAuthenticated /\ view \in ProtectedPages)

\* the band of risk scores the filter dialog prints for a risk level
LabelledBand(riskLevel) ==
    CASE riskLevel = "low" -> 0..30
      [] riskLevel = "medium" -> 31..70
      [] riskLevel = "high" -> 71..100

\* C7: with the risk level set to low, medium or high, the list shows exactly
\* the transactions in the labelled band among those passing the status and
\* amount filters.
C7_RiskFilterMatchesLabel ==
    tx.filters.riskLevel \in {"low", "medium", "high"} =>
        LET InBand(t) ==
                /\ t.riskScore \in LabelledBand(tx.filters.riskLevel)
                /\ PassesFilters(t, [tx.filters EXCEPT !.riskLevel = "all"])
        IN  filteredTransactions(tx) =
                SelectSeq(tx.realTimeTransactions \o tx.transactions, InBand)

\* the n most recent entries of a log, newest first
NewestFirst(log, n) ==
    Reverse(SubSeq(log, Len(log) - Min(n, Len(log)) + 1, Len(log)))

\* C8: realTimeTransactions never holds more than 50 entries and is the most
\* recently added transactions, at most 50, newest first.
C8_RealTimeFeedBounded ==
    /\ Len(tx.realTimeTransactions) <= RealTimeCap
    /\ Ids(tx.realTimeTransactions) = NewestFirst(rtLog, RealTimeCap)

\* C8 witness: more than 50 transactions were added and the feed holds 50.
C8_Witness ==
    /\ last.type = "addRealTimeTransaction"
    /\ Len(rtLog) > RealTimeCap
    /\ Len(tx.realTimeTransactions) = RealTimeCap

\* C9: alerts never holds more than 100 entries and is the most recently
\* added alerts, at most 100, newest first.
C9_AlertsBounded ==
    /\ Len(tx.alerts) <= AlertCap
    /\ Ids(tx.alerts) = NewestFirst(alertLog, AlertCap)

\* C9 witness: more than 100 alerts were added and the list holds 100.
C9_Witness ==
    /\ last.type = "addFraudAlert"
    /\ Len(alertLog) > AlertCap
    /\ Len(tx.alerts) = AlertCap

\* C10 as stated: patterns never holds more than 50 patterns.
C10_PatternsNeverExceedCap == Len(fraud.patterns) <= PatternCap

\* C10 amended: patterns holds more than 50 entries only as long as the last
\* fetchPatternsSuccess delivered that many; adding a new pattern always
\* leaves at most 50.
C10_PatternsCappedOnAdd ==
    /\ Len(fraud.patterns) <= Max(PatternCap, fetchedLen)
    /\ Len(fraud.patterns) > PatternCap => Len(fraud.patterns) = fetchedLen
    /\ (last.type = "addNewPattern" /\ last.payload.isNew) =>
            Len(fraud.patterns) <= PatternCap

\* C10 witness: a new pattern was added to a fetched list of more than 50 and
\* the list was cut to 50.
C10_Witness ==
    /\ last.type = "addNewPattern"
    /\ last.payload.isNew
    /\ fetchedLen > PatternCap
    /\ Len(fraud.patterns) = PatternCap

(***************************************************************************)
(* Loading flags.                                                          *)
(***************************************************************************)
\* C13: whenever transactions.loading or fraud.loading is true it later
\* becomes false again: every fetchTransactionsStart and fetchAnalyticsStart
\* is followed by its success or failure action.
C13_FetchesComplete ==
    /\ tx.loading ~> ~tx.loading
    /\ fraud.loading ~> ~fraud.loading

\* the login attempt in every state: loading is true exactly while its
\* request is pending, and once the request has completed exactly one
\* loginSuccess or loginFailure has been dispatched for it
LoginAttemptInv ==
    /\ auth.loading <=> req = "pending"
    /\ req = "pending" =>
          attempt.posts = 1 /\ attempt.successes + attempt.failures = 0
    /\ (req = "none" /\ attempt.posts > 0) =>
          attempt.posts = 1 /\ attempt.successes + attempt.failures = 1
    /\ last.type \in {"loginSuccess", "loginFailure"} =>
          ~auth.loading /\ attempt.successes + attempt.failures = 1

Range(s) == {s[i] : i \in DOMAIN s}

\* the run has come to the place in main where the tests are called
ReachedTests ==
    /\ "setup_monitoring" \in Range(setup.ran)
    /\ "setup_monitoring" \notin setup.failed

\* C11: a run of setup.sh that comes to the test step runs run_tests exactly
\* when --skip-tests is not on its command line.
C11_TestsRunUnlessSkipped ==
    ReachedTests =>
        IF "--skip-tests" \in Range(setup.argv)
        THEN "run_tests" \notin Range(setup.ran)
        ELSE \/ "run_tests" \in Range(setup.ran)
             \/ setup.pc = "main" /\ MainSteps[setup.step] = "run_tests"

\* the places of a command line the loop reads as an option: the first, and
\* the one after an option, two after -e/--environment
RECURSIVE OptionAt(_, _)
OptionAt(argv, i) ==
    \/ i = 1
    \/ i >= 2 /\ OptionAt(argv, i - 1) /\ argv[i - 1] \notin EnvironmentFlags
    \/ i >= 3 /\ OptionAt(argv, i - 2) /\ argv[i - 2] \in EnvironmentFlags

OptionPlaces(argv) == {i \in DOMAIN argv : OptionAt(argv, i)}
UnknownPlaces(argv) == {i \in OptionPlaces(argv) : argv[i] \notin KnownOptions}
HelpPlaces(argv) == {i \in OptionPlaces(argv) : argv[i] \in HelpFlags}

\* the environment the command line gives: the word after the last
\* -e/--environment, nothing when no word follows it, the default without it
GivenEnvironment(argv) ==
    LET flags == {i \in OptionPlaces(argv) : argv[i] \in EnvironmentFlags}
    IN  IF flags = {} THEN "development"
        ELSE LET i == CHOOSE j \in flags : \A k \in flags : k <= j
             IN  IF i < Len(argv) THEN argv[i + 1] ELSE ""

\* an unknown option was passed, or the environment given is not one of
\* development, testing, production
BadCommandLine(argv) ==
    \/ UnknownPlaces(argv) # {}
    \/ GivenEnvironment(argv) \notin {"development", "testing", "production"}

\* -h/--help stands in front of every unknown option
HelpComesFirst(argv) ==
    \E h \in HelpPlaces(argv) : \A u \in UnknownPlaces(argv) : h < u

NeverEntersMain ==
    /\ setup.pc # "main"
    /\ setup.ran = <<>>
    /\ ~setup.completed

\* C12 as stated: on an unknown option or an invalid environment setup.sh
\* runs no step, never enters main, and exits with status 1.
C12_BadCommandLineExitsOne ==
    (setup.pc # "idle" /\ BadCommandLine(setup.argv)) =>
        /\ NeverEntersMain
        /\ setup.pc = "exited" => setup.status = 1

\* C12, amended: on an unknown option or an invalid environment setup.sh
\* runs no step and never enters main; it exits with status 1, unless
\* -h/--help is read before any unknown option, and then with status 0
\* after the usage text.
C12_BadCommandLineNeverEntersMain ==
    (setup.pc # "idle" /\ BadCommandLine(setup.argv)) =>
        /\ NeverEntersMain
        /\ setup.pc = "exited" =>
            IF HelpComesFirst(setup.argv)
            THEN setup.status = 0 /\ setup.usage
            ELSE setup.status = 1

C12_Witness ==
    /\ setup.pc = "exited"
    /\ BadCommandLine(setup.argv)
    /\ ~HelpComesFirst(setup.argv)
    /\ GivenEnvironment(setup.argv) = "staging"
    /\ setup.status = 1
    /\ setup.ran = <<>>

\* the steps of main whose test passes
EnabledSteps == {k \in DOMAIN MainSteps : StepEnabled(setup, MainSteps[k])}

\* C15: the steps run are the enabled steps, in the order of main, none left
\* out and none run twice; the success message is printed only after every
\* enabled step has returned success; a step that fails is the last one
\* run, and the script ends there with a non-zero status.
C15_StepsInSequenceAbortOnFailure ==
    LET ran == setup.ran
        n == Len(ran)
    IN  /\ \A i \in 1..n : StepIndex(ran[i]) \in EnabledSteps
        /\ \A i \in 1..n, j \in 1..n :
              i < j => StepIndex(ran[i]) < StepIndex(ran[j])
        /\ \A k \in EnabledSteps :
              (n > 0 /\ k < StepIndex(ran[n])) => MainSteps[k] \in Range(ran)
        /\ setup.completed =>
              /\ setup.failed = {}
              /\ \A k \in EnabledSteps : MainSteps[k] \in Range(ran)
              /\ setup.status = 0
        /\ setup.failed # {} =>
              /\ setup.failed = {ran[n]}
              /\ setup.pc = "exited"
              /\ setup.status # 0
              /\ ~setup.completed

C15_Witness ==
    /\ setup.pc = "exited"
    /\ setup.failed = {"setup_blockchain"}
    /\ setup.status # 0
    /\ "check_system_requirements" \in Range(setup.ran)
    /\ StepIndex("build_frontend") \in EnabledSteps
    /\ "build_frontend" \notin Range(setup.ran)
    /\ ~setup.completed

====
